---------------------------- MODULE Spec2Model ----------------------------
(***************************************************************************)
(* Model of dataconverter.py: the text-to-record extraction pipeline.      *)
(*                                                                         *)
(* Python strings are sequences of one-character strings, so that          *)
(* lower(), strip(), split(), the `in` substring test and the e-mail       *)
(* regular expression are computed character by character.                 *)
(*                                                                         *)
(* Three specifications share the module:                                  *)
(*   SpecParse    parse_text, one loop iteration per step                  *)
(*   SpecProducts filter_products and enrich_with_codes on product lists   *)
(*   SpecBatch    run_streamlit_app's loop around process_pdf_file         *)
(***************************************************************************)
EXTENDS Naturals, Sequences, FiniteSets

VARIABLES
    \* ---- parse_text (SpecParse) ----
    text,           \* the argument of parse_text
    lines,          \* text.splitlines()
    i,              \* index of the next line the for loop takes
    company_name,   \* the four accumulators of parse_text
    contact_info,
    email,
    products,
    updated,        \* the accumulators the latest iteration assigned
    pc,             \* "loop" | "done" | "off"
    ret,            \* the returned tuple, once pc = "done"
    \* ---- filter_products, enrich_with_codes (SpecProducts) ----
    in_products,    \* the product list given to the function
    category,       \* the category given to filter_products
    once,           \* filter_products(in_products, category)
    twice,          \* filter_products(once, category)
    coded,          \* enrich_with_codes(in_products)
    fpc,            \* "start" | "filtered" | "refiltered" | "enriched" | "off"
    \* ---- run_streamlit_app, process_pdf_file (SpecBatch) ----
    n_docs,         \* len(uploaded_files)
    sel_category,   \* the category of the selectbox
    doc,            \* index of the uploaded file the loop is at
    ppc,            \* the position inside process_pdf_file
    full_text,      \* the locals of process_pdf_file
    lang_code,
    fields,
    filtered_products,
    enriched,
    results,        \* the rows appended so far
    recorded,       \* the document each row of results came from
    reported,       \* the documents st.error was called for
    raised,         \* the documents whose text extraction raised
    trace           \* the calls process_pdf_file made for the latest document

parseVars == <<text, lines, i, company_name, contact_info, email, products,
               updated, pc, ret>>

productVars == <<in_products, category, once, twice, coded, fpc>>

batchVars == <<n_docs, sel_category, doc, ppc, full_text, lang_code, fields,
               filtered_products, enriched, results, recorded, reported,
               raised, trace>>

vars == <<parseVars, productVars, batchVars>>

-----------------------------------------------------------------------------
(* Bounds of the model *)

\* the longest text given to parse_text, in lines
MaxLines == 3

\* the longest product list given to filter_products and enrich_with_codes
MaxProducts == 3

\* the most files uploaded in one batch
MaxDocs == 3

-----------------------------------------------------------------------------
(* Characters and Python's str methods *)

UpperCase == <<"A", "B", "C", "D", "E", "F", "G", "H", "I", "J", "K", "L", "M", "N", "O", "P", "Q", "R", "S", "T", "U", "V", "W", "X", "Y", "Z">>
LowerCase == <<"a", "b", "c", "d", "e", "f", "g", "h", "i", "j", "k", "l", "m", "n", "o", "p", "q", "r", "s", "t", "u", "v", "w", "x", "y", "z">>
DigitChars == {"0", "1", "2", "3", "4", "5", "6", "7", "8", "9"}

Range(s) == {s[k] : k \in 1..Len(s)}

SetMin(S) == CHOOSE x \in S : \A y \in S : x <= y
SetMax(S) == CHOOSE x \in S : \A y \in S : y <= x

\* str.isalpha() of one character
isalpha(c) == c \in Range(UpperCase) \cup Range(LowerCase)

\* str.isspace() of one character
isspace(c) == c \in {" ", "\t", "\n", "\r", "\f"}

\* the class \w of the re module
isword(c) == isalpha(c) \/ c \in DigitChars \/ c = "_"

lower_char(c) ==
    IF c \in Range(UpperCase)
    THEN LowerCase[CHOOSE k \in 1..Len(UpperCase) : UpperCase[k] = c]
    ELSE c

\* str.lower()
lower(s) == [k \in 1..Len(s) |-> lower_char(s[k])]

\* Python's `sub in s` on strings
Contains(s, sub) ==
    \E k \in 0..Len(s) :
        /\ k + Len(sub) <= Len(s)
        /\ SubSeq(s, k + 1, k + Len(sub)) = sub

\* str.strip()
strip(s) ==
    LET NonSpace == {k \in 1..Len(s) : ~isspace(s[k])}
    IN  IF NonSpace = {} THEN <<>>
        ELSE SubSeq(s, SetMin(NonSpace), SetMax(NonSpace))

\* len(s.split()): the number of maximal runs of non-whitespace
TokenCount(s) ==
    Cardinality({k \in 1..Len(s) :
                    /\ ~isspace(s[k])
                    /\ (k = 1 \/ isspace(s[k - 1]))})

\* str.splitlines(), for texts whose only line boundary is "\n"
RECURSIVE splitlines(_)
splitlines(s) ==
    IF s = <<>> THEN <<>>
    ELSE LET Breaks == {k \in 1..Len(s) : s[k] = "\n"}
         IN  IF Breaks = {} THEN <<s>>
             ELSE LET n == SetMin(Breaks)
                  IN  <<SubSeq(s, 1, n - 1)>>
                          \o splitlines(SubSeq(s, n + 1, Len(s)))

\* sep.join(parts)
RECURSIVE join(_, _)
join(sep, parts) ==
    IF parts = <<>> THEN <<>>
    ELSE IF Len(parts) = 1 THEN parts[1]
    ELSE parts[1] \o sep \o join(sep, Tail(parts))

\* list(set(xs)): every order of the distinct elements is a possible result
ListOfSet(xs) ==
    LET S == Range(xs)
        n == Cardinality(S)
    IN  {f \in [1..n -> S] : \A a, b \in 1..n : a # b => f[a] # f[b]}

-----------------------------------------------------------------------------
(* re.findall(r'[\w\.-]+@[\w\.-]+', line) *)

\* the character class [\w\.-]
IsAddrChar(c) == isword(c) \/ c = "." \/ c = "-"

\* the index after the maximal run of class characters that starts at s
RunEnd(line, s) ==
    SetMin({e \in s..(Len(line) + 1) :
               e = Len(line) + 1 \/ ~IsAddrChar(line[e])})

\* the pattern matches with its first character at s: the greedy run is
\* followed by "@" and at least one more class character
MatchAt(line, s) ==
    /\ IsAddrChar(line[s])
    /\ LET e == RunEnd(line, s)
       IN  /\ e + 1 <= Len(line)
           /\ line[e] = "@"
           /\ IsAddrChar(line[e + 1])

\* the leftmost non-overlapping matches from position pos on
RECURSIVE findall_from(_, _)
findall_from(line, pos) ==
    LET Starts == {s \in pos..Len(line) : MatchAt(line, s)}
    IN  IF Starts = {} THEN <<>>
        ELSE LET s  == SetMin(Starts)
                 e2 == RunEnd(line, RunEnd(line, s) + 1)
             IN  <<SubSeq(line, s, e2 - 1)>> \o findall_from(line, e2)

findall(line) == findall_from(line, 1)

-----------------------------------------------------------------------------
(* parse_text *)

\* the threshold of `len(line.split()) <= 5`
WordThreshold == 5

ContactTriggers == {<<"t", "e", "l">>, <<"a", "d", "r", "e", "s">>, <<"w", "w", "w">>, <<"h", "t", "t", "p">>, <<"@">>}

CompanyMarkers == {<<"g", "r", "o", "u", "p">>, <<"c", "o", "m", "p", "a", "n", "y">>, <<"c", "o", ".">>, <<"i", "n", "c", ".">>, <<"l", "t", "d">>}

\* the condition of the first `if` of the loop body
IsContactLine(line) ==
    LET line_lower == lower(line)
    IN  \E t \in ContactTriggers : Contains(line_lower, t)

\* `'@' in line`
HasAt(line) == Contains(line, <<"@">>)

\* the condition of the first `elif`
IsCompanyLine(line) ==
    LET line_lower == lower(line)
    IN  \E word \in CompanyMarkers : Contains(line_lower, word)

IsProductLine_strict(line) ==
    /\ TokenCount(line) < WordThreshold
    /\ \E k \in 1..Len(line) : isalpha(line[k])

\* the condition of the second `elif`
IsProductLine(line) ==
    /\ TokenCount(line) <= WordThreshold
    /\ \E k \in 1..Len(line) : isalpha(line[k])

ContactAppend_raw(acc, line) == acc \o line \o <<"\n">>

\* contact_info += line.strip() + '\n'
ContactAppend(acc, line) == acc \o strip(line) \o <<"\n">>

CompanyAssign_keep(old, line) == IF old = <<>> THEN strip(line) ELSE old

\* company_name = line.strip()
CompanyAssign(old, line) == strip(line)

\* email = found[0]
EmailAssign(old, found) == found[1]

\* the accumulators at the start of parse_text
ParseInit ==
    [company_name |-> <<>>, contact_info |-> <<>>, email |-> <<>>,
     products |-> <<>>, updated |-> {}]

\* one iteration of the for loop of parse_text on the accumulators st
ParseStep(st, line) ==
    LET found   == findall(line)
        contact == IsContactLine(line)
        branch  == IF HasAt(line) THEN "email"
                   ELSE IF IsCompanyLine(line) THEN "company"
                   ELSE IF IsProductLine(line) THEN "product"
                   ELSE "none"
    IN  [company_name |->
            IF branch = "company" THEN CompanyAssign(st.company_name, line)
            ELSE st.company_name,
         contact_info |->
            IF contact THEN ContactAppend(st.contact_info, line)
            ELSE st.contact_info,
         email |->
            IF branch = "email" /\ found # <<>>
            THEN EmailAssign(st.email, found)
            ELSE st.email,
         products |->
            IF branch = "product" THEN Append(st.products, strip(line))
            ELSE st.products,
         updated |->
            (IF contact THEN {"contactInfo"} ELSE {})
            \cup (IF branch = "email" /\ found # <<>> THEN {"email"} ELSE {})
            \cup (IF branch = "company" THEN {"companyName"} ELSE {})
            \cup (IF branch = "product" THEN {"candidateProducts"} ELSE {})]

\* the accumulators after the whole loop over ls
RECURSIVE ParseLoop(_, _)
ParseLoop(st, ls) ==
    IF ls = <<>> THEN st ELSE ParseLoop(ParseStep(st, Head(ls)), Tail(ls))

\* the tuples parse_text may return: one per order of list(set(products))
ParseReturns(st) ==
    {[company_name |-> st.company_name,
      contact_info |-> strip(st.contact_info),
      email        |-> st.email,
      products     |-> ps] : ps \in ListOfSet(st.products)}

\* parse_text(text), as the set of its possible results
parse_text(t) == ParseReturns(ParseLoop(ParseInit, splitlines(t)))

-----------------------------------------------------------------------------
(* Inputs of SpecParse *)

LineSet ==
    { <<>>,
      <<" ">>,
      <<"1", "2">>,
      <<"@">>,
      <<"a", "@", "b">>,
      <<" ", "I", "n", "c", ".", "@", "y", " ">>,
      <<"T", "e", "l", " ", "5">>,
      <<"H", "o", "t", "e", "l", " ", "I", "n", "c", ".">>,
      <<"A", "b", " ", "L", "t", "d">>,
      <<" ", "c", "o", ".", " ", "X">>,
      <<"P", "V", "C", " ", "R", "e", "s", "i", "n">>,
      <<"a", " ", "b", " ", "c", " ", "d", " ", "e">>,
      <<"a", " ", "b", " ", " ", "c", " ", "d", " ", "e", " ", "f">> }

SeqsUpTo(S, n) == UNION {[1..m -> S] : m \in 0..n}

Texts == {join(<<"\n">>, ls) : ls \in SeqsUpTo(LineSet, MaxLines)}

NoRet == [company_name |-> <<>>, contact_info |-> <<>>, email |-> <<>>,
          products |-> <<>>]

\* the variables of the other specifications, parked
ParseOff ==
    /\ text = <<>> /\ lines = <<>> /\ i = 1
    /\ company_name = <<>> /\ contact_info = <<>> /\ email = <<>>
    /\ products = <<>> /\ updated = {} /\ pc = "off" /\ ret = NoRet

ProductsOff ==
    /\ in_products = <<>> /\ category = "" /\ once = <<>> /\ twice = <<>>
    /\ coded = <<>> /\ fpc = "off"

BatchOff ==
    /\ n_docs = 0 /\ sel_category = "" /\ doc = 1 /\ ppc = "off"
    /\ full_text = <<>> /\ lang_code = "" /\ fields = NoRet
    /\ filtered_products = <<>> /\ enriched = <<>> /\ results = <<>>
    /\ recorded = <<>> /\ reported = <<>> /\ raised = {} /\ trace = <<>>

-----------------------------------------------------------------------------
(* SpecParse: parse_text, one line per step *)

InitParse ==
    /\ text \in Texts
    /\ lines = splitlines(text)
    /\ i = 1
    /\ company_name = ParseInit.company_name
    /\ contact_info = ParseInit.contact_info
    /\ email = ParseInit.email
    /\ products = ParseInit.products
    /\ updated = ParseInit.updated
    /\ pc = "loop"
    /\ ret = NoRet
    /\ ProductsOff
    /\ BatchOff

\* one iteration of `for line in lines`
ParseLine ==
    /\ pc = "loop"
    /\ i <= Len(lines)
    /\ LET st == ParseStep([company_name |-> company_name,
                            contact_info |-> contact_info,
                            email |-> email,
                            products |-> products,
                            updated |-> updated], lines[i])
       IN  /\ company_name' = st.company_name
           /\ contact_info' = st.contact_info
           /\ email' = st.email
           /\ products' = st.products
           /\ updated' = st.updated
    /\ i' = i + 1
    /\ UNCHANGED <<text, lines, pc, ret, productVars, batchVars>>

\* the return statement
ParseReturn ==
    /\ pc = "loop"
    /\ i > Len(lines)
    /\ ret' \in ParseReturns([company_name |-> company_name,
                              contact_info |-> contact_info,
                              email |-> email,
                              products |-> products,
                              updated |-> updated])
    /\ pc' = "done"
    /\ UNCHANGED <<text, lines, i, company_name, contact_info, email,
                   products, updated, productVars, batchVars>>

NextParse == ParseLine \/ ParseReturn

SpecParse == InitParse /\ [][NextParse]_vars

-----------------------------------------------------------------------------
(* Properties of parse_text, checked under SpecParse *)

\* the line the latest iteration processed
LineDone == i > 1
LastLine == lines[i - 1]

\* the lines processed so far
Seen == SubSeq(lines, 1, i - 1)

\* a line matches a contact trigger, as section 4.2 rule 1 words it
MatchesTrigger(line) ==
    \/ Contains(lower(line), <<"t", "e", "l">>)
    \/ Contains(lower(line), <<"a", "d", "r", "e", "s">>)
    \/ Contains(lower(line), <<"w", "w", "w">>)
    \/ Contains(lower(line), <<"h", "t", "t", "p">>)
    \/ Contains(lower(line), <<"@">>)

\* a line contains a company marker, as section 4.2 rule 3 words it
MatchesMarker(line) ==
    \/ Contains(lower(line), <<"g", "r", "o", "u", "p">>)
    \/ Contains(lower(line), <<"c", "o", "m", "p", "a", "n", "y">>)
    \/ Contains(lower(line), <<"c", "o", ".">>)
    \/ Contains(lower(line), <<"i", "n", "c", ".">>)
    \/ Contains(lower(line), <<"l", "t", "d">>)

HasLetter(line) == \E k \in 1..Len(line) : isalpha(line[k])

\* the indices of the lines holding a match of the e-mail pattern
EmailLines == {k \in 1..Len(lines) : findall(lines[k]) # <<>>}

\* C1: when two or more lines hold a match of the e-mail pattern, the
\* returned email is the first match of the earliest such line.
C1_FirstEmailWins ==
    (pc = "done" /\ Cardinality(EmailLines) >= 2)
        => ret.email = findall(lines[SetMin(EmailLines)])[1]

\* C2: a line updates at most one field, contact-info together with email
\* being the only pair allowed; a line matching a contact trigger is never
\* added to candidateProducts and never sets companyName.
C2_OneFieldPerLine ==
    /\ Cardinality(updated) <= 1 \/ updated = {"contactInfo", "email"}
    /\ (LineDone /\ MatchesTrigger(LastLine))
           => updated \cap {"candidateProducts", "companyName"} = {}

\* the indices of the lines that reach the company-name rule and hold a marker
CompanyLines ==
    {k \in 1..Len(lines) : ~HasAt(lines[k]) /\ MatchesMarker(lines[k])}

\* C3: companyName is the trimmed text of the last line that reaches the
\* company-name rule and holds a company marker; a line containing "@"
\* never sets companyName.
C3_LastCompanyWins ==
    /\ (pc = "done" /\ CompanyLines # {})
           => ret.company_name = strip(lines[SetMax(CompanyLines)])
    /\ (LineDone /\ HasAt(LastLine)) => "companyName" \notin updated

C3_Witness ==
    /\ pc = "done"
    /\ Cardinality(CompanyLines) >= 2
    /\ strip(lines[SetMin(CompanyLines)]) # strip(lines[SetMax(CompanyLines)])
    /\ ret.company_name = strip(lines[SetMax(CompanyLines)])
    /\ \E k \in 1..Len(lines) : HasAt(lines[k]) /\ MatchesMarker(lines[k])

\* a line with no contact trigger, no "@" and no company marker
PlainLine(line) ==
    ~MatchesTrigger(line) /\ ~HasAt(line) /\ ~MatchesMarker(line)

\* C4: for a line with no contact trigger, no "@" and no company marker, the
\* trimmed line is among the returned products iff it has at most 5 tokens
\* and a letter; such a line without a letter is added to no field.
C4_ProductThreshold ==
    /\ pc = "done" =>
          \A k \in 1..Len(lines) :
              PlainLine(lines[k]) =>
                  (strip(lines[k]) \in Range(ret.products)
                      <=> (TokenCount(lines[k]) <= 5 /\ HasLetter(lines[k])))
    /\ (LineDone /\ PlainLine(LastLine) /\ ~HasLetter(LastLine))
           => updated = {}

C4_Witness ==
    /\ pc = "done"
    /\ \E k \in 1..Len(lines) :
           /\ PlainLine(lines[k]) /\ TokenCount(lines[k]) = 5
           /\ strip(lines[k]) \in Range(ret.products)
    /\ \E k \in 1..Len(lines) :
           /\ PlainLine(lines[k]) /\ TokenCount(lines[k]) = 6
           /\ HasLetter(lines[k])
           /\ strip(lines[k]) \notin Range(ret.products)
    /\ \E k \in 1..Len(lines) :
           PlainLine(lines[k]) /\ lines[k] # <<>> /\ ~HasLetter(lines[k])

\* the trigger lines among ls, trimmed, in order
RECURSIVE TrimmedTriggerLines(_)
TrimmedTriggerLines(ls) ==
    IF ls = <<>> THEN <<>>
    ELSE (IF MatchesTrigger(Head(ls)) THEN <<strip(Head(ls))>> ELSE <<>>)
             \o TrimmedTriggerLines(Tail(ls))

\* each part followed by a newline
RECURSIVE Terminated(_)
Terminated(parts) ==
    IF parts = <<>> THEN <<>>
    ELSE Head(parts) \o <<"\n">> \o Terminated(Tail(parts))

\* C10: after any prefix of the lines the accumulated contactInfo is the
\* trigger lines seen so far, each trimmed, in line order; the returned
\* contactInfo is their newline-joined concatenation, empty when there is none.
C10_ContactInfoInOrder ==
    /\ contact_info = Terminated(TrimmedTriggerLines(Seen))
    /\ pc = "done" =>
          /\ ret.contact_info = strip(Terminated(TrimmedTriggerLines(lines)))
          /\ ret.contact_info = join(<<"\n">>, TrimmedTriggerLines(lines))
          /\ TrimmedTriggerLines(lines) = <<>> => ret.contact_info = <<>>

C10_Witness ==
    /\ pc = "done"
    /\ Len(TrimmedTriggerLines(lines)) >= 2
    /\ \E k \in 1..Len(lines) :
           MatchesTrigger(lines[k]) /\ strip(lines[k]) # lines[k]
    /\ \E k \in 1..Len(lines) : ~MatchesTrigger(lines[k])
    /\ TrimmedTriggerLines(lines)[1] # TrimmedTriggerLines(lines)[2]
    /\ ret.contact_info = join(<<"\n">>, TrimmedTriggerLines(lines))

-----------------------------------------------------------------------------
(* Configuration tables *)

LANGUAGES ==
    [l \in {"en", "tr", "fr", "zh", "nl"} |->
        IF l = "zh" THEN "ch_sim" ELSE l]

KEYWORDS ==
    [c \in {"chemicals", "additives"} |->
        IF c = "chemicals"
        THEN <<<<"r", "e", "s", "i", "n">>, <<"c", "h", "l", "o", "r", "i", "d", "e">>, <<"f", "l", "u", "o", "r", "i", "d", "e">>, <<"a", "c", "i", "d">>, <<"s", "o", "d", "a">>, <<"c", "a", "r", "b", "o", "n", "a", "t", "e">>>>
        ELSE <<<<"s", "u", "g", "a", "r">>, <<"f", "l", "a", "v", "o", "r">>, <<"p", "r", "e", "s", "e", "r", "v", "a", "t", "i", "v", "e">>, <<"s", "w", "e", "e", "t", "e", "n", "e", "r">>, <<"c", "o", "l", "o", "r">>>>]

NACE_HS_MAP ==
    [p \in {<<"P", "V", "C", " ", "R", "e", "s", "i", "n">>, <<"C", "a", "l", "c", "i", "u", "m", " ", "C", "h", "l", "o", "r", "i", "d", "e">>} |->
        IF p = <<"P", "V", "C", " ", "R", "e", "s", "i", "n">> THEN <<<<"2", "0", ".", "1", "6">>, <<"3", "9", "0", "4", ".", "1", "0">>>>
        ELSE <<<<"2", "0", ".", "1", "3">>, <<"2", "8", "2", "7", ".", "2", "0">>>>]

-----------------------------------------------------------------------------
(* filter_products *)

\* KEYWORDS.get(category, [])
KeywordsFor(cat) == IF cat \in DOMAIN KEYWORDS THEN KEYWORDS[cat] ELSE <<>>

MatchesKeyword_cased(prod, kw) == Contains(prod, kw)

\* kw.lower() in prod.lower()
MatchesKeyword(prod, kw) == Contains(lower(prod), lower(kw))

\* any(kw.lower() in prod.lower() for kw in keywords)
Retained(prod, keywords) ==
    \E n \in 1..Len(keywords) : MatchesKeyword(prod, keywords[n])

\* removing the rejected products from the list while iterating over it
RECURSIVE RemoveInPlace(_, _, _)
RemoveInPlace(ps, n, keywords) ==
    IF n > Len(ps) THEN ps
    ELSE IF Retained(ps[n], keywords)
         THEN RemoveInPlace(ps, n + 1, keywords)
         ELSE RemoveInPlace(SubSeq(ps, 1, n - 1) \o SubSeq(ps, n + 1, Len(ps)),
                            n + 1, keywords)

filter_products_inplace(ps, cat) == RemoveInPlace(ps, 1, KeywordsFor(cat))

\* [prod for prod in products if any(...)]
filter_products(ps, cat) ==
    LET keywords == KeywordsFor(cat)
        Keep(prod) == Retained(prod, keywords)
    IN  SelectSeq(ps, Keep)

-----------------------------------------------------------------------------
(* enrich_with_codes *)

CodesFor_anycase(p) ==
    IF \E key \in DOMAIN NACE_HS_MAP : lower(key) = lower(p)
    THEN NACE_HS_MAP[CHOOSE key \in DOMAIN NACE_HS_MAP : lower(key) = lower(p)]
    ELSE <<<<>>, <<>>>>

\* NACE_HS_MAP.get(p, ('', ''))
CodesFor(p) ==
    IF p \in DOMAIN NACE_HS_MAP THEN NACE_HS_MAP[p] ELSE <<<<>>, <<>>>>

\* the list of (p, nace, hs), one per product, in input order
enrich_with_codes(ps) ==
    [n \in 1..Len(ps) |-> <<ps[n], CodesFor(ps[n])[1], CodesFor(ps[n])[2]>>]

-----------------------------------------------------------------------------
(* create_excel_row *)

NonEmpty(x) == x # <<>>

Column(product_data, c) == [n \in 1..Len(product_data) |-> product_data[n][c]]

\* the row; the fields stand for the columns "Sirket Ismi", "Irtibat
\* Bilgileri", "E-Mail", "Urunler", "NACE Kodlari" and "HS Kodlari"
create_excel_row(company, contact, mail, product_data) ==
    [company  |-> company,
     contact  |-> contact,
     email    |-> mail,
     products |-> join(<<",", " ">>, Column(product_data, 1)),
     nace     |-> join(<<",", " ">>, SelectSeq(Column(product_data, 2), NonEmpty)),
     hs       |-> join(<<",", " ">>, SelectSeq(Column(product_data, 3), NonEmpty))]

-----------------------------------------------------------------------------
(* SpecProducts: filter_products applied twice, enrich_with_codes once *)

ProductSet ==
    { <<"P", "V", "C", " ", "R", "e", "s", "i", "n">>,
      <<"p", "v", "c", " ", "r", "e", "s", "i", "n">>,
      <<"C", "a", "l", "c", "i", "u", "m", " ", "C", "h", "l", "o", "r", "i", "d", "e">>,
      <<"S", "O", "D", "A", " ", "a", "s", "h">>,
      <<"S", "u", "g", "a", "r">>,
      <<"T", "e", "l", " ", "5">> }

Categories == {"chemicals", "additives", "metals"}

InitProducts ==
    /\ in_products \in SeqsUpTo(ProductSet, MaxProducts)
    /\ category \in Categories
    /\ once = <<>>
    /\ twice = <<>>
    /\ coded = <<>>
    /\ fpc = "start"
    /\ ParseOff
    /\ BatchOff

Filter ==
    /\ fpc = "start"
    /\ once' = filter_products(in_products, category)
    /\ fpc' = "filtered"
    /\ UNCHANGED <<in_products, category, twice, coded, parseVars, batchVars>>

FilterAgain ==
    /\ fpc = "filtered"
    /\ twice' = filter_products(once, category)
    /\ fpc' = "refiltered"
    /\ UNCHANGED <<in_products, category, once, coded, parseVars, batchVars>>

Enrich ==
    /\ fpc = "start"
    /\ coded' = enrich_with_codes(in_products)
    /\ fpc' = "enriched"
    /\ UNCHANGED <<in_products, category, once, twice, parseVars, batchVars>>

NextProducts == Filter \/ FilterAgain \/ Enrich

SpecProducts == InitProducts /\ [][NextProducts]_vars

-----------------------------------------------------------------------------
(* Properties of filter_products and enrich_with_codes, under SpecProducts *)

\* C5: filtering a filtered collection again, with the same category,
\* changes nothing.
C5_FilterIdempotent == fpc = "refiltered" => twice = once

C5_Witness ==
    /\ fpc = "refiltered"
    /\ twice = once
    /\ once # <<>>
    /\ Len(once) < Len(in_products)
    /\ \E n \in 1..(Len(in_products) - 1) :
           in_products[n] \notin Range(once)
               /\ in_products[n + 1] \notin Range(once)

\* the product contains, ignoring case, a keyword configured for cat
HasKeywordOf(prod, cat) ==
    /\ cat \in {"chemicals", "additives"}
    /\ \E n \in 1..Len(KEYWORDS[cat]) :
           Contains(lower(prod), lower(KEYWORDS[cat][n]))

\* the products of ps that hold a keyword of cat, in order
RECURSIVE Kept(_, _)
Kept(ps, cat) ==
    IF ps = <<>> THEN <<>>
    ELSE (IF HasKeywordOf(Head(ps), cat) THEN <<Head(ps)>> ELSE <<>>)
             \o Kept(Tail(ps), cat)

\* C6: a product is retained iff it contains, ignoring case, a keyword of
\* the category; a category with no keyword list gives the empty sequence.
C6_FilterByKeyword ==
    fpc = "filtered" =>
        /\ once = Kept(in_products, category)
        /\ category \notin {"chemicals", "additives"} => once = <<>>

C6_Witness ==
    /\ fpc = "filtered"
    /\ category = "chemicals"
    /\ <<"S", "O", "D", "A", " ", "a", "s", "h">> \in Range(once)
    /\ <<"S", "u", "g", "a", "r">> \in Range(in_products) \ Range(once)

C6_WitnessUnknown ==
    /\ fpc = "filtered"
    /\ category = "metals"
    /\ <<"P", "V", "C", " ", "R", "e", "s", "i", "n">> \in Range(in_products)
    /\ once = <<>>

\* the codes section 4.4 and the code table give for a product
TableCodes(p) ==
    IF p = <<"P", "V", "C", " ", "R", "e", "s", "i", "n">> THEN <<<<"2", "0", ".", "1", "6">>, <<"3", "9", "0", "4", ".", "1", "0">>>>
    ELSE IF p = <<"C", "a", "l", "c", "i", "u", "m", " ", "C", "h", "l", "o", "r", "i", "d", "e">> THEN <<<<"2", "0", ".", "1", "3">>, <<"2", "8", "2", "7", ".", "2", "0">>>>
    ELSE <<<<>>, <<>>>>

\* C7: enrich returns one element per input product, in input order, with
\* the table's codes for an exact key and two empty strings otherwise.
C7_EnrichExact ==
    fpc = "enriched" =>
        /\ Len(coded) = Len(in_products)
        /\ \A n \in 1..Len(in_products) :
               /\ coded[n][1] = in_products[n]
               /\ <<coded[n][2], coded[n][3]>> = TableCodes(in_products[n])

C7_Witness ==
    /\ fpc = "enriched"
    /\ Len(in_products) = 3
    /\ coded[1] = <<<<"p", "v", "c", " ", "r", "e", "s", "i", "n">>, <<>>, <<>>>>
    /\ coded[2] = <<<<"P", "V", "C", " ", "R", "e", "s", "i", "n">>, <<"2", "0", ".", "1", "6">>, <<"3", "9", "0", "4", ".", "1", "0">>>>
    /\ coded[3] = <<<<"C", "a", "l", "c", "i", "u", "m", " ", "C", "h", "l", "o", "r", "i", "d", "e">>, <<"2", "0", ".", "1", "3">>, <<"2", "8", "2", "7", ".", "2", "0">>>>

-----------------------------------------------------------------------------
(* process_pdf_file and the loop of run_streamlit_app *)

\* the outcome of a call that raised
Raise == "<raise>"

\* what extract_text_from_pdf may return for an uploaded file
DocTexts ==
    { <<>>,
      <<"A", "b", " ", "L", "t", "d", "\n", "T", "e", "l", " ", "5", "\n", "a", "@", "b", "\n", "P", "V", "C", " ", "R", "e", "s", "i", "n", "\n", "S", "u", "g", "a", "r">>,
      <<"H", "o", "t", "e", "l", " ", "I", "n", "c", ".", "\n", "C", "a", "l", "c", "i", "u", "m", " ", "C", "h", "l", "o", "r", "i", "d", "e">> }

\* what langdetect's detect may return; "de" has no entry in LANGUAGES
DetectTags == {"en", "tr", "fr", "zh", "nl", "de"}

\* detect_language: the tag detect returns, 'en' when detect raises
detect_language(outcome) == IF outcome = Raise THEN "en" ELSE outcome

LangCode_nodefault(lang) ==
    IF lang \in DOMAIN LANGUAGES THEN LANGUAGES[lang] ELSE lang

\* LANGUAGES.get(lang, 'en')
LangCode(lang) == IF lang \in DOMAIN LANGUAGES THEN LANGUAGES[lang] ELSE "en"

AfterError_abort(d) == n_docs + 1

\* the document the loop goes on with once the except clause has run
AfterError(d) == d + 1

Call(op, arg, res) == [op |-> op, arg |-> arg, res |-> res]

InitBatch ==
    /\ n_docs \in 1..MaxDocs
    /\ sel_category \in DOMAIN KEYWORDS
    /\ doc = 1
    /\ ppc = "extract1"
    /\ full_text = <<>>
    /\ lang_code = ""
    /\ fields = NoRet
    /\ filtered_products = <<>>
    /\ enriched = <<>>
    /\ results = <<>>
    /\ recorded = <<>>
    /\ reported = <<>>
    /\ raised = {}
    /\ trace = <<>>
    /\ ParseOff
    /\ ProductsOff

\* full_text = extract_text_from_pdf(file_path), returning
Extract1Ok ==
    /\ ppc = "extract1"
    /\ doc <= n_docs
    /\ \E t \in DocTexts :
           /\ full_text' = t
           /\ trace' = <<Call("extract", "en", t)>>
    /\ ppc' = "detect"
    /\ UNCHANGED <<n_docs, sel_category, doc, lang_code, fields,
                   filtered_products, enriched, results, recorded, reported,
                   raised, parseVars, productVars>>

\* the same call raising: the except clause reports the file, and the loop
\* goes on
Extract1Raise ==
    /\ ppc = "extract1"
    /\ doc <= n_docs
    /\ trace' = <<Call("extract", "en", Raise)>>
    /\ raised' = raised \cup {doc}
    /\ reported' = Append(reported, doc)
    /\ doc' = AfterError(doc)
    /\ UNCHANGED <<n_docs, sel_category, ppc, full_text, lang_code, fields,
                   filtered_products, enriched, results, recorded,
                   parseVars, productVars>>

\* lang = detect_language(full_text); lang_code = LANGUAGES.get(lang, 'en')
Detect ==
    /\ ppc = "detect"
    /\ \E outcome \in DetectTags \cup {Raise} :
           LET lang == detect_language(outcome)
           IN  /\ lang_code' = LangCode(lang)
               /\ trace' = Append(trace, Call("detect", full_text, lang))
    /\ ppc' = "phase2"
    /\ UNCHANGED <<n_docs, sel_category, doc, full_text, fields,
                   filtered_products, enriched, results, recorded, reported,
                   raised, parseVars, productVars>>

\* full_text = extract_text_from_pdf(file_path, lang_code), returning
Extract2Ok ==
    /\ ppc = "phase2"
    /\ lang_code # "en"
    /\ \E t \in DocTexts :
           /\ full_text' = t
           /\ trace' = Append(trace, Call("extract", lang_code, t))
    /\ ppc' = "parse"
    /\ UNCHANGED <<n_docs, sel_category, doc, lang_code, fields,
                   filtered_products, enriched, results, recorded, reported,
                   raised, parseVars, productVars>>

\* the same call raising
Extract2Raise ==
    /\ ppc = "phase2"
    /\ lang_code # "en"
    /\ trace' = Append(trace, Call("extract", lang_code, Raise))
    /\ raised' = raised \cup {doc}
    /\ reported' = Append(reported, doc)
    /\ doc' = AfterError(doc)
    /\ ppc' = "extract1"
    /\ UNCHANGED <<n_docs, sel_category, full_text, lang_code, fields,
                   filtered_products, enriched, results, recorded,
                   parseVars, productVars>>

\* company, contact, email, raw_products = parse_text(full_text)
Parse ==
    /\ \/ ppc = "phase2" /\ lang_code = "en"
       \/ ppc = "parse"
    /\ \E r \in parse_text(full_text) :
           /\ fields' = r
           /\ trace' = Append(trace, Call("parse", full_text, r))
    /\ ppc' = "filter"
    /\ UNCHANGED <<n_docs, sel_category, doc, full_text, lang_code,
                   filtered_products, enriched, results, recorded, reported,
                   raised, parseVars, productVars>>

\* filtered_products = filter_products(raw_products, category=category)
FilterStep ==
    /\ ppc = "filter"
    /\ LET out == filter_products(fields.products, sel_category)
       IN  /\ filtered_products' = out
           /\ trace' = Append(trace, Call("filter", fields.products, out))
    /\ ppc' = "enrich"
    /\ UNCHANGED <<n_docs, sel_category, doc, full_text, lang_code, fields,
                   enriched, results, recorded, reported,
                   raised, parseVars, productVars>>

\* enriched = enrich_with_codes(filtered_products)
EnrichStep ==
    /\ ppc = "enrich"
    /\ LET out == enrich_with_codes(filtered_products)
       IN  /\ enriched' = out
           /\ trace' = Append(trace, Call("enrich", filtered_products, out))
    /\ ppc' = "assemble"
    /\ UNCHANGED <<n_docs, sel_category, doc, full_text, lang_code, fields,
                   filtered_products, results, recorded, reported,
                   raised, parseVars, productVars>>

\* return create_excel_row(...); results.append(row_data)
Assemble ==
    /\ ppc = "assemble"
    /\ LET row == create_excel_row(fields.company_name, fields.contact_info,
                                   fields.email, enriched)
       IN  /\ results' = Append(results, row)
           /\ trace' = Append(trace, Call("assemble", enriched, row))
    /\ recorded' = Append(recorded, doc)
    /\ doc' = doc + 1
    /\ ppc' = "extract1"
    /\ UNCHANGED <<n_docs, sel_category, full_text, lang_code, fields,
                   filtered_products, enriched, reported,
                   raised, parseVars, productVars>>

\* the loop is over
Finish ==
    /\ ppc = "extract1"
    /\ doc > n_docs
    /\ ppc' = "finished"
    /\ UNCHANGED <<n_docs, sel_category, doc, full_text, lang_code, fields,
                   filtered_products, enriched, results, recorded, reported,
                   raised, trace, parseVars, productVars>>

NextBatch ==
    \/ Extract1Ok \/ Extract1Raise \/ Detect \/ Extract2Ok \/ Extract2Raise
    \/ Parse \/ FilterStep \/ EnrichStep \/ Assemble \/ Finish

SpecBatch == InitBatch /\ [][NextBatch]_vars

-----------------------------------------------------------------------------
(* Properties of process_pdf_file and of the batch loop, under SpecBatch *)

\* the extraction mode section 4.6 gives a detected language: the entry of
\* the language map, the default mode for a language without one
ModeOf(lang) ==
    IF lang = "zh" THEN "ch_sim"
    ELSE IF lang \in {"tr", "fr", "nl"} THEN lang
    ELSE "en"

\* the calls of the latest document, once the language is known
SecondPass == ModeOf(trace[2].res) # "en"
ParseAt == IF SecondPass THEN 4 ELSE 3
FinalText == IF SecondPass THEN trace[3].res ELSE trace[1].res

Ops(tr) == [n \in 1..Len(tr) |-> tr[n].op]

\* every call was made and returned
TraceComplete ==
    /\ Len(trace) >= 2
    /\ Ops(trace) = (IF SecondPass THEN <<"extract", "detect", "extract">>
                     ELSE <<"extract", "detect">>)
                        \o <<"parse", "filter", "enrich", "assemble">>

\* the latest document has just given its record
RecordJustMade ==
    /\ ppc \in {"extract1", "finished"}
    /\ recorded # <<>>
    /\ recorded[Len(recorded)] = doc - 1

\* C8: extraction is called once in the default mode and the language
\* detected from its result; it is called a second time, with the mapped
\* mode, iff the language maps to a non-default mode; parse gets the text of
\* the second extraction when there was one and of the first otherwise; then
\* parse, filter, enrich and assemble run in that order, once each.
C8_TwoPhaseProtocol ==
    LET n == Len(trace)
    IN  /\ n >= 1 => /\ trace[1].op = "extract"
                     /\ trace[1].arg = "en"
        /\ n >= 2 => /\ trace[1].res # Raise
                     /\ trace[2].op = "detect"
                     /\ trace[2].arg = trace[1].res
        /\ n >= 3 =>
              /\ SecondPass => /\ trace[3].op = "extract"
                               /\ trace[3].arg = ModeOf(trace[2].res)
              /\ n >= ParseAt =>
                    /\ FinalText # Raise
                    /\ trace[ParseAt].op = "parse"
                    /\ trace[ParseAt].arg = FinalText
              /\ n > ParseAt =>
                    SubSeq(Ops(trace), ParseAt + 1, n)
                        = SubSeq(<<"filter", "enrich", "assemble">>,
                                 1, n - ParseAt)
              /\ n <= ParseAt + 3
        /\ RecordJustMade => TraceComplete

C8_Witness ==
    /\ TraceComplete
    /\ SecondPass
    /\ trace[1].res # trace[3].res
    /\ trace[4].arg = trace[3].res
    /\ RecordJustMade

C8_WitnessDefault ==
    /\ TraceComplete
    /\ trace[2].res = "de"
    /\ trace[3].op = "parse"
    /\ trace[3].arg = trace[1].res

Count(seq, x) == Cardinality({n \in 1..Len(seq) : seq[n] = x})

\* C9: an extraction failure is reported against its document and yields no
\* record; every other document of the batch, before or after it, yields
\* exactly one record; records plus reported failures is the number of
\* documents.
C9_FailureIsPerDocument ==
    /\ Len(results) = Len(recorded)
    /\ \A d \in 1..n_docs :
           d < doc =>
               /\ d \in raised =>
                      Count(reported, d) = 1 /\ Count(recorded, d) = 0
               /\ d \notin raised =>
                      Count(reported, d) = 0 /\ Count(recorded, d) = 1
    /\ ppc = "finished" =>
           /\ doc = n_docs + 1
           /\ Len(results) + Len(reported) = n_docs

C9_Witness ==
    /\ ppc = "finished"
    /\ n_docs = 3
    /\ reported = <<2>>
    /\ recorded = <<1, 3>>
    /\ Len(results) = 2

=============================================================================
